---------------------------- MODULE Spec2Model ----------------------------
(***************************************************************************)
(* LIS2MDL magnetometer driver (Drivers/EM7180/Src/lis2mdl.c).             *)
(*                                                                         *)
(* The driver is single threaded and synchronous.  One behaviour of the    *)
(* model is one call of one driver function, started from any state of     *)
(* the device registers.  Bus transfers (Wire.transfer) and delay() are    *)
(* the external operations; they are recorded, in order, in `trace`.       *)
(*                                                                         *)
(* Floating point values are kept as exact rationals:                      *)
(*   dest1[k]        in units of 1/10000 (mag_bias * 0.0015 = bias*15/1e4) *)
(*   dest2[k]        as [num, den]  (avg_rad / mag_scale[k])               *)
(*   magNom, magTest as numerators over 50 (sum / 50.0f)                   *)
(*   reported[k]     in units of 1/100  ((T-N)/50 * 0.0015 * 1000)         *)
(* Rounding of the float operations is not modelled.                       *)
(***************************************************************************)
EXTENDS Integers, Sequences, FiniteSets, TLC

(***************************************************************************)
(* Integer helpers: C semantics of the operators the driver uses.          *)
(***************************************************************************)

\* conversion of an int to int16_t (two's complement wrap, as gcc defines it)
ToInt16(n) ==
    LET m == n % 65536 IN IF m >= 32768 THEN m - 65536 ELSE m

\* conversion of an int to uint8_t (argument passing to lis2mdl_write_byte)
ToUint8(n) == n % 256

\* a | b on non-negative ints
RECURSIVE BitOr(_, _)
BitOr(a, b) ==
    IF a = 0 THEN b
    ELSE IF b = 0 THEN a
    ELSE (IF (a % 2 = 1) \/ (b % 2 = 1) THEN 1 ELSE 0)
         + 2 * BitOr(a \div 2, b \div 2)

\* C's a / 2 on signed ints: the quotient is truncated toward zero
CDiv2_Floor(a) == a \div 2
CDiv2(a) == IF a >= 0 THEN a \div 2 ELSE -((-a) \div 2)

Axes == 1..3

(***************************************************************************)
(* The environment: what the device and the build can produce.             *)
(***************************************************************************)

\* register names of lis2mdl.h (the header is not part of the sources, so
\* the registers are kept symbolic)
Regs == {"WHO_AM_I", "CFG_REG_A", "CFG_REG_B", "CFG_REG_C", "STATUS_REG"}

\* byte values a register is started with
RegVals == {0, 2, 17, 96, 255}

\* register files the device can be in when a driver function is called
ControlRegFiles == [Regs -> {0, 255}] \cup
    {[r \in Regs |-> v] : v \in RegVals}
SelfTestRegFiles ==
    {[r \in Regs |-> IF r = "CFG_REG_C" THEN v ELSE 140] : v \in RegVals}
CalRegFiles == {[r \in Regs |-> 0], [r \in Regs |-> IF r = "CFG_REG_C" THEN 17 ELSE 140]}

\* 8-byte responses of the output register block OUTX_L .. (x, y, z low/high
\* and the two bytes that follow)
F1 == <<16, 0, 32, 0, 48, 0, 255, 255>>      \* (16, 32, 48)
F2 == <<206, 255, 255, 255, 0, 128, 1, 2>>   \* (-50, -1, -32768)
F3 == <<116, 0, 232, 0, 104, 255, 9, 9>>     \* (116, 232, -152)

\* bit 1 of CFG_REG_C is the self-test enable bit
SelfTestOn(rf) == (rf["CFG_REG_C"] \div 2) % 2 = 1

\* responses while the self-test stimulus is applied / is not applied
ExcitedFrames == {F3}
NormalFrames == {F1, F2}
DeviceFrames(rf) == IF SelfTestOn(rf) THEN ExcitedFrames ELSE NormalFrames

\* 2-byte responses of TEMP_OUT_L, TEMP_OUT_H
TempFrames == {<<0, 0>>, <<255, 255>>, <<0, 128>>, <<255, 127>>, <<25, 0>>}

\* what an uninitialised stack buffer can hold
GarbageFrames == {<<255, 127, 0, 128, 1, 0>>}

\* where the build puts what follows rawData[6] in lis2mdl_data_get's frame:
\* padding, or the spilled `destination` pointer
Layouts == {"padding", "pointer"}

\* most bus transfers that fail during one call
MaxFaults == 1

VARIABLES
    pc,                \* position of the running driver function
    op,                \* the driver function that was called
    regs,              \* device registers
    regs0,             \* device registers when the function was called
    layout,            \* stack layout of the build (see Layouts)
    faultsLeft,        \* bus transfers that may still fail
    faultSeen,         \* a bus transfer of a sampling iteration failed
    sampledAfterFault, \* a sampling iteration ran after a failed one
    trace,             \* external operations, run-length encoded blocks
    sink,              \* lines printed on Serial
    resp,              \* bytes of the last multi-byte bus response
    destination,       \* the caller's int16_t[3] (mag_temp, temp)
    ret,               \* value returned by the function
    ii,                \* loop counter
    mag_max, mag_min,  \* running extrema
    mag_bias, mag_scale,
    dest1, dest2,      \* results of lis2mdl_offset_bias
    sum, magNom, magTest,
    c,                 \* CFG_REG_C as read by lis2mdl_self_test
    reported,          \* self-test deltas printed under Mx, My, Mz
    feed               \* samples handed to the extrema fold

vars == <<pc, op, regs, regs0, layout, faultsLeft, faultSeen,
          sampledAfterFault, trace, sink, resp, destination, ret, ii,
          mag_max, mag_min, mag_bias, mag_scale, dest1, dest2, sum, magNom,
          magTest, c, reported, feed>>

calVars == <<mag_max, mag_min, mag_bias, mag_scale, dest1, dest2>>
stVars == <<sum, magNom, magTest, c, reported>>

(***************************************************************************)
(* External operations and the trace.                                      *)
(***************************************************************************)

OpDelay(ms) == [op |-> "delay", ms |-> ms]
OpReadByte(reg) == [op |-> "read_byte", reg |-> reg]
OpWriteByte(reg, data) == [op |-> "write_byte", reg |-> reg, data |-> data]
\* a multi-byte read with the auto-increment bit (0x80 | reg), asking for
\* `count` bytes into a buffer of `cap` bytes
OpRead(reg, count, cap) ==
    [op |-> "read", reg |-> reg, autoinc |-> TRUE, count |-> count, cap |-> cap]

\* append a block of operations; a block equal to the last one is counted
Log(tr, blk) ==
    IF Len(tr) > 0 /\ tr[Len(tr)].ops = blk
    THEN [tr EXCEPT ![Len(tr)].n = @ + 1]
    ELSE Append(tr, [ops |-> blk, n |-> 1])

Blk(blk, n) == [ops |-> blk, n |-> n]

RECURSIVE LogAll(_, _)
LogAll(tr, blks) ==
    IF blks = <<>> THEN tr ELSE LogAll(Log(tr, <<Head(blks)>>), Tail(blks))


(***************************************************************************)
(* Bus primitives.  Each gives the set of outcomes of one transfer; `fl`   *)
(* is the number of transfers that may still fail.  The driver ignores the *)
(* status of Wire.transfer, so a failed transfer leaves the receive buffer *)
(* as it was: uninitialised.                                               *)
(***************************************************************************)

lis2mdl_read_byte(rf, reg, fl) ==
    {[val |-> rf[reg], ok |-> TRUE]} \cup
    (IF fl > 0 THEN {[val |-> g, ok |-> FALSE] : g \in RegVals} ELSE {})

lis2mdl_write_byte(rf, reg, data, fl) ==
    {[regs |-> [rf EXCEPT ![reg] = data], ok |-> TRUE]} \cup
    (IF fl > 0 THEN {[regs |-> rf, ok |-> FALSE]} ELSE {})

\* bytes of response b stored in a buffer of cap bytes, and past its end
\* (lis2mdl_data_get and lis2mdl_temp_get call it as lis2mdl_read_bytes)
lis2mdl_read(b, count, cap) ==
    [buf |-> SubSeq(b, 1, IF count < cap THEN count ELSE cap),
     stray |-> IF count > cap THEN SubSeq(b, cap + 1, count) ELSE <<>>]

Spent(ok) == IF ok THEN 0 ELSE 1

(***************************************************************************)
(* Device Control.                                                         *)
(***************************************************************************)

\* ((int16_t) hi << 8) | lo, assigned to an int16_t
Decode16(lo, hi) == ToInt16(BitOr(hi * 256, lo))

DecodeVector(raw) == [k \in Axes |-> Decode16(raw[2 * k - 1], raw[2 * k])]

DATA_GET_COUNT == 8
DATA_GET_CAP == 6
TEMP_GET_COUNT == 2
TEMP_GET_CAP == 2

\* outcomes of lis2mdl_data_get(destination): the response, the bytes stored
\* past rawData, the caller's array afterwards.  With the `destination`
\* pointer overwritten by the bytes stored past rawData, the three stores go
\* elsewhere and the caller's array keeps its old content.
lis2mdl_data_get(rf, fl, lay, old) ==
    {LET st == lis2mdl_read(b, DATA_GET_COUNT, DATA_GET_CAP) IN
       [ok |-> TRUE, resp |-> b, stray |-> st.stray,
        destination |-> IF st.stray # <<>> /\ lay = "pointer"
                        THEN old ELSE DecodeVector(st.buf)]
     : b \in DeviceFrames(rf)} \cup
    (IF fl > 0
     THEN {[ok |-> FALSE, resp |-> <<>>, stray |-> <<>>,
            destination |-> DecodeVector(g)] : g \in GarbageFrames}
     ELSE {})

OpDataGet == OpRead("OUTX_L_REG", DATA_GET_COUNT, DATA_GET_CAP)
OpTempGet == OpRead("TEMP_OUT_L_REG", TEMP_GET_COUNT, TEMP_GET_CAP)

Return(name) ==
    /\ pc' = "done"
    /\ op' = name

ChipId ==
    /\ pc = "idle"
    /\ \E r \in lis2mdl_read_byte(regs, "WHO_AM_I", faultsLeft) :
         /\ ret' = r.val
         /\ faultsLeft' = faultsLeft - Spent(r.ok)
    /\ trace' = Log(trace, <<OpReadByte("WHO_AM_I")>>)
    /\ Return("chip_id_get")
    /\ UNCHANGED <<regs, regs0, layout, faultSeen, sampledAfterFault, sink,
                   resp, destination, ii, calVars, stVars, feed>>

RESET_BIT == 32
BOOT_BIT == 64
RESET_DELAY == 1
BOOT_DELAY == 100

\* the operations lis2mdl_reset issues, temp being the value it read
ResetOps_BootFirst(temp) ==
    << OpReadByte("CFG_REG_A"),
       OpWriteByte("CFG_REG_A", BitOr(temp, BOOT_BIT)),
       OpDelay(RESET_DELAY),
       OpWriteByte("CFG_REG_A", BitOr(temp, RESET_BIT)),
       OpDelay(BOOT_DELAY) >>
ResetOps(temp) ==
    << OpReadByte("CFG_REG_A"),
       OpWriteByte("CFG_REG_A", BitOr(temp, RESET_BIT)),
       OpDelay(RESET_DELAY),
       OpWriteByte("CFG_REG_A", BitOr(temp, BOOT_BIT)),
       OpDelay(BOOT_DELAY) >>

Reset ==
    /\ pc = "idle"
    /\ \E r \in lis2mdl_read_byte(regs, "CFG_REG_A", faultsLeft) :
         LET temp == r.val
             ops == ResetOps(temp)
             fl1 == faultsLeft - Spent(r.ok)
         IN \E w1 \in lis2mdl_write_byte(regs, "CFG_REG_A", ops[2].data, fl1) :
              LET fl2 == fl1 - Spent(w1.ok) IN
              \E w2 \in lis2mdl_write_byte(w1.regs, "CFG_REG_A", ops[4].data, fl2) :
                /\ regs' = w2.regs
                /\ faultsLeft' = fl2 - Spent(w2.ok)
                /\ ret' = temp
                /\ trace' = LogAll(trace, ops)
    /\ Return("reset")
    /\ UNCHANGED <<regs0, layout, faultSeen, sampledAfterFault, sink, resp,
                   destination, ii, calVars, stVars, feed>>

\* output data rates handed to lis2mdl_init
MODRs == {0, 1, 2, 3}

InitOps(MODR) ==
    << OpWriteByte("CFG_REG_A", ToUint8(BitOr(128, MODR * 4))),
       OpWriteByte("CFG_REG_B", 1),
       OpWriteByte("CFG_REG_C", BitOr(1, 16)) >>

InitDev ==
    /\ pc = "idle"
    /\ \E MODR \in MODRs :
         LET ops == InitOps(MODR) IN
         \E w1 \in lis2mdl_write_byte(regs, "CFG_REG_A", ops[1].data, faultsLeft) :
           LET fl1 == faultsLeft - Spent(w1.ok) IN
           \E w2 \in lis2mdl_write_byte(w1.regs, "CFG_REG_B", ops[2].data, fl1) :
             LET fl2 == fl1 - Spent(w2.ok) IN
             \E w3 \in lis2mdl_write_byte(w2.regs, "CFG_REG_C", ops[3].data, fl2) :
               /\ regs' = w3.regs
               /\ faultsLeft' = fl2 - Spent(w3.ok)
               /\ trace' = LogAll(trace, ops)
    /\ Return("init")
    /\ UNCHANGED <<regs0, layout, faultSeen, sampledAfterFault, sink, resp,
                   destination, ret, ii, calVars, stVars, feed>>

Status ==
    /\ pc = "idle"
    /\ \E r \in lis2mdl_read_byte(regs, "STATUS_REG", faultsLeft) :
         /\ ret' = r.val
         /\ faultsLeft' = faultsLeft - Spent(r.ok)
    /\ trace' = Log(trace, <<OpReadByte("STATUS_REG")>>)
    /\ Return("status")
    /\ UNCHANGED <<regs, regs0, layout, faultSeen, sampledAfterFault, sink,
                   resp, destination, ii, calVars, stVars, feed>>

DataGet ==
    /\ pc = "idle"
    /\ \E o \in lis2mdl_data_get(regs, faultsLeft, layout, destination) :
         /\ resp' = o.resp
         /\ destination' = o.destination
         /\ faultsLeft' = faultsLeft - Spent(o.ok)
    /\ trace' = Log(trace, <<OpDataGet>>)
    /\ Return("data_get")
    /\ UNCHANGED <<regs, regs0, layout, faultSeen, sampledAfterFault, sink,
                   ret, ii, calVars, stVars, feed>>

TempGet ==
    /\ pc = "idle"
    /\ \E b \in TempFrames :
         LET st == lis2mdl_read(b, TEMP_GET_COUNT, TEMP_GET_CAP) IN
         /\ resp' = b
         /\ ret' = Decode16(st.buf[1], st.buf[2])
    /\ trace' = Log(trace, <<OpTempGet>>)
    /\ Return("temp_get")
    /\ UNCHANGED <<regs, regs0, layout, faultsLeft, faultSeen,
                   sampledAfterFault, sink, destination, ii, calVars, stVars,
                   feed>>

(***************************************************************************)
(* Calibration Engine: lis2mdl_offset_bias.                                *)
(***************************************************************************)

CAL_SAMPLES == 4000
CAL_WARMUP_DELAY == 4000
CAL_SAMPLE_DELAY == 12

MAG_MAX_INIT == -32767
MAG_MIN_INIT == 32767

Zero3 == [k \in Axes |-> 0]

\* if (mag_temp[jj] > mag_max[jj]) mag_max[jj] = mag_temp[jj];
UpdateMax(mx, s) == IF s > mx THEN s ELSE mx
\* if (mag_temp[jj] < mag_min[jj]) mag_min[jj] = mag_temp[jj];
UpdateMin(mn, s) == IF s < mn THEN s ELSE mn

\* (mag_max[jj] + mag_min[jj]) / 2, in int
HardIronBias_Floor(mx, mn) == CDiv2_Floor(mx + mn)
HardIronBias(mx, mn) == CDiv2(mx + mn)
\* (mag_max[jj] - mag_min[jj]) / 2, in int
SoftIronBasis(mx, mn) == CDiv2(mx - mn)

\* (float) mag_bias * _mRes, in units of 1/10000
MRES_E4 == 15
HardIronOffset(bias) == bias * MRES_E4

\* avg_rad / (float) mag_scale[k], avg_rad = (s1 + s2 + s3) / 3.0f.
\* den = 0 is the float division by zero: the result is Inf (num > 0) or
\* NaN (num = 0), not a finite number.
SoftIronScale(scale, k) ==
    [num |-> scale[1] + scale[2] + scale[3], den |-> 3 * scale[k]]

Finite(q) == q.den # 0

\* the external operations of one sampling iteration
CalIterationOps_NoDelay == <<OpDataGet>>
CalIterationOps == <<OpDataGet, OpDelay(CAL_SAMPLE_DELAY)>>

CalStart ==
    /\ pc = "idle"
    /\ pc' = "cal_loop"
    /\ op' = "offset_bias"
    /\ mag_bias' = Zero3
    /\ mag_scale' = Zero3
    /\ mag_max' = [k \in Axes |-> MAG_MAX_INIT]
    /\ mag_min' = [k \in Axes |-> MAG_MIN_INIT]
    /\ destination' = Zero3
    /\ sink' = Append(sink, "Calculate mag offset bias")
    /\ trace' = Log(trace, <<OpDelay(CAL_WARMUP_DELAY)>>)
    /\ ii' = 0
    /\ UNCHANGED <<regs, regs0, layout, faultsLeft, faultSeen,
                   sampledAfterFault, resp, ret, dest1, dest2, stVars, feed>>

CalIteration ==
    /\ pc = "cal_loop"
    /\ ii < CAL_SAMPLES
    /\ \E o \in lis2mdl_data_get(regs, faultsLeft, layout, destination) :
         /\ resp' = o.resp
         /\ destination' = o.destination
         /\ mag_max' = [k \in Axes |-> UpdateMax(mag_max[k], o.destination[k])]
         /\ mag_min' = [k \in Axes |-> UpdateMin(mag_min[k], o.destination[k])]
         /\ faultsLeft' = faultsLeft - Spent(o.ok)
         /\ faultSeen' = (faultSeen \/ ~o.ok)
    /\ sampledAfterFault' = (sampledAfterFault \/ faultSeen)
    /\ trace' = Log(trace, CalIterationOps)
    /\ ii' = ii + 1
    /\ UNCHANGED <<pc, op, regs, regs0, layout, sink, ret, mag_bias,
                   mag_scale, dest1, dest2, stVars, feed>>

\* lines 121-143: the results, from the extrema
CalResults ==
    LET bias == [k \in Axes |-> HardIronBias(mag_max[k], mag_min[k])]
        scale == [k \in Axes |-> SoftIronBasis(mag_max[k], mag_min[k])]
    IN /\ mag_bias' = bias
       /\ mag_scale' = scale
       /\ dest1' = [k \in Axes |-> HardIronOffset(bias[k])]
       /\ dest2' = [k \in Axes |-> SoftIronScale(scale, k)]

CalFinish ==
    /\ pc = "cal_loop"
    /\ ii >= CAL_SAMPLES
    /\ CalResults
    /\ sink' = Append(sink, "Mag Calibration done!")
    /\ pc' = "done"
    /\ UNCHANGED <<op, regs, regs0, layout, faultsLeft, faultSeen,
                   sampledAfterFault, trace, resp, destination, ret, ii,
                   mag_max, mag_min, stVars, feed>>

(***************************************************************************)
(* The extrema fold and the results of lis2mdl_offset_bias on a given      *)
(* sequence of samples (the loop body of lines 111-117 and lines 121-141,  *)
(* without the bus).                                                       *)
(***************************************************************************)

FoldStep ==
    /\ pc = "fold"
    /\ ii < Len(feed)
    /\ LET s == feed[ii + 1] IN
         /\ destination' = s
         /\ mag_max' = [k \in Axes |-> UpdateMax(mag_max[k], s[k])]
         /\ mag_min' = [k \in Axes |-> UpdateMin(mag_min[k], s[k])]
    /\ ii' = ii + 1
    /\ UNCHANGED <<pc, op, regs, regs0, layout, faultsLeft, faultSeen,
                   sampledAfterFault, trace, sink, resp, ret, mag_bias,
                   mag_scale, dest1, dest2, stVars, feed>>

FoldFinish ==
    /\ pc = "fold"
    /\ ii >= Len(feed)
    /\ CalResults
    /\ pc' = "done"
    /\ UNCHANGED <<op, regs, regs0, layout, faultsLeft, faultSeen,
                   sampledAfterFault, trace, sink, resp, destination, ret,
                   ii, mag_max, mag_min, stVars, feed>>

(***************************************************************************)
(* Self-Test Engine: lis2mdl_self_test.                                    *)
(***************************************************************************)

ST_SAMPLES == 50
ST_SAMPLE_DELAY == 50
ST_SETTLE_DELAY == 100
ST_SCREEN_DELAY == 2000
ST_BIT == 2

StIterationOps == <<OpDataGet, OpDelay(ST_SAMPLE_DELAY)>>

\* the axis whose means are printed under the labels Mx, My, Mz
PrintedAxis == <<1, 1, 2>>

\* (magTest[k] - magNom[k]) * _mRes * 1000.0, in units of 1/100
Delta(test, nom, k) == 3 * (test[k] - nom[k])

\* value written back to CFG_REG_C at the end of the self test
StRestoreValue_ClearBit(cv) == IF (cv \div ST_BIT) % 2 = 1 THEN cv - ST_BIT ELSE cv
StRestoreValue(cv) == cv

StStart ==
    /\ pc = "idle"
    /\ pc' = "st_base"
    /\ op' = "self_test"
    /\ destination' = Zero3
    /\ magTest' = Zero3
    /\ magNom' = Zero3
    /\ sum' = Zero3
    /\ ii' = 0
    /\ UNCHANGED <<regs, regs0, layout, faultsLeft, faultSeen,
                   sampledAfterFault, trace, sink, resp, ret, calVars, c,
                   reported, feed>>

\* one iteration of either sampling loop
StIteration ==
    /\ ii < ST_SAMPLES
    /\ \E o \in lis2mdl_data_get(regs, faultsLeft, layout, destination) :
         /\ resp' = o.resp
         /\ destination' = o.destination
         /\ sum' = [k \in Axes |-> sum[k] + o.destination[k]]
         /\ faultsLeft' = faultsLeft - Spent(o.ok)
         /\ faultSeen' = (faultSeen \/ ~o.ok)
    /\ sampledAfterFault' = (sampledAfterFault \/ faultSeen)
    /\ trace' = Log(trace, StIterationOps)
    /\ ii' = ii + 1
    /\ UNCHANGED <<pc, op, regs, regs0, layout, sink, ret, calVars, magNom,
                   magTest, c, reported, feed>>

StBaseIteration ==
    /\ pc = "st_base"
    /\ StIteration

StEnable ==
    /\ pc = "st_base"
    /\ ii >= ST_SAMPLES
    /\ magNom' = sum
    /\ \E r \in lis2mdl_read_byte(regs, "CFG_REG_C", faultsLeft) :
         LET fl1 == faultsLeft - Spent(r.ok) IN
         \E w \in lis2mdl_write_byte(regs, "CFG_REG_C", BitOr(r.val, ST_BIT), fl1) :
           /\ c' = r.val
           /\ regs' = w.regs
           /\ faultsLeft' = fl1 - Spent(w.ok)
           /\ trace' = LogAll(trace,
                  << OpReadByte("CFG_REG_C"),
                     OpWriteByte("CFG_REG_C", BitOr(r.val, ST_BIT)),
                     OpDelay(ST_SETTLE_DELAY) >>)
    /\ sum' = Zero3
    /\ ii' = 0
    /\ pc' = "st_excited"
    /\ UNCHANGED <<op, regs0, layout, faultSeen, sampledAfterFault, sink,
                   resp, destination, ret, calVars, magTest, reported, feed>>

StExcitedIteration ==
    /\ pc = "st_excited"
    /\ StIteration

StFinish ==
    /\ pc = "st_excited"
    /\ ii >= ST_SAMPLES
    /\ magTest' = sum
    /\ \E w \in lis2mdl_write_byte(regs, "CFG_REG_C", StRestoreValue(c), faultsLeft) :
         /\ regs' = w.regs
         /\ faultsLeft' = faultsLeft - Spent(w.ok)
    /\ trace' = LogAll(trace,
           << OpWriteByte("CFG_REG_C", StRestoreValue(c)),
              OpDelay(ST_SETTLE_DELAY),
              OpDelay(ST_SCREEN_DELAY) >>)
    /\ reported' = [k \in Axes |-> Delta(sum, magNom, PrintedAxis[k])]
    /\ sink' = sink \o <<"Mag Self Test:", "Mx results:", "My results:",
                         "Mz results:", "Should be between 15 and 500 mG">>
    /\ pc' = "done"
    /\ UNCHANGED <<op, regs0, layout, faultSeen, sampledAfterFault, resp,
                   destination, ret, ii, calVars, sum, magNom, c, feed>>

(***************************************************************************)
(* Specifications.                                                         *)
(***************************************************************************)

\* content of the caller's array before the call
InitVectors == {Zero3, <<-1, 5, 300>>}

InitWith(regFiles, faults, feeds, start) ==
    /\ pc = start
    /\ op = "none"
    /\ regs \in regFiles
    /\ regs0 = regs
    /\ layout \in Layouts
    /\ faultsLeft = faults
    /\ faultSeen = FALSE
    /\ sampledAfterFault = FALSE
    /\ trace = <<>>
    /\ sink = <<>>
    /\ resp = <<>>
    /\ destination \in InitVectors
    /\ ret = 0
    /\ ii = 0
    /\ mag_max = [k \in Axes |-> MAG_MAX_INIT]
    /\ mag_min = [k \in Axes |-> MAG_MIN_INIT]
    /\ mag_bias = Zero3
    /\ mag_scale = Zero3
    /\ dest1 = Zero3
    /\ dest2 = [k \in Axes |-> [num |-> 0, den |-> 1]]
    /\ sum = Zero3
    /\ magNom = Zero3
    /\ magTest = Zero3
    /\ c = 0
    /\ reported = Zero3
    /\ feed \in feeds

\* Device Control, reliable bus
Init == InitWith(ControlRegFiles, 0, {<<>>}, "idle")
Next == ChipId \/ Reset \/ InitDev \/ Status \/ DataGet \/ TempGet
Spec == Init /\ [][Next]_vars

\* Calibration, reliable bus
CalInit == InitWith(CalRegFiles, 0, {<<>>}, "idle")
CalNext == CalStart \/ CalIteration \/ CalFinish
SpecCal == CalInit /\ [][CalNext]_vars

\* Self test, reliable bus
SelfTestInit == InitWith(SelfTestRegFiles, 0, {<<>>}, "idle")
SelfTestNext ==
    StStart \/ StBaseIteration \/ StEnable \/ StExcitedIteration \/ StFinish
SpecSelfTest == SelfTestInit /\ [][SelfTestNext]_vars

\* Calibration and self test on a bus whose transfers can fail
FaultInit == InitWith({[r \in Regs |-> 0]}, MaxFaults, {<<>>}, "idle")
FaultNext == CalNext \/ SelfTestNext
SpecFault == FaultInit /\ [][FaultNext]_vars

\* The extrema fold on given samples
FoldVals == {-32768, -32767, -50, -1, 0, 300, 32767}
FeedVecs == {<<a, b, 42>> : a \in FoldVals, b \in {-1, 0, 32767}}
MaxFeed == 2
RECURSIVE SeqsUpTo(_, _)
SeqsUpTo(S, n) ==
    IF n = 0 THEN {<<>>}
    ELSE LET shorter == SeqsUpTo(S, n - 1) IN
         shorter \cup {Append(q, x) : q \in {r \in shorter : Len(r) = n - 1}, x \in S}
FoldInit ==
    InitWith({[r \in Regs |-> 0]}, 0, SeqsUpTo(FeedVecs, MaxFeed) \ {<<>>}, "fold")
FoldNext == FoldStep \/ FoldFinish
SpecFold == FoldInit /\ [][FoldNext]_vars

(***************************************************************************)
(* Properties.                                                             *)
(***************************************************************************)

Done(name) == pc = "done" /\ op = name

\* v with bit b (a power of two) set
WithBit(v, b) == IF (v \div b) % 2 = 1 THEN v ELSE v + b

\* the little-endian signed 16-bit value of the byte pair (lo, hi)
SignedLE(lo, hi) ==
    LET u == lo + 256 * hi IN IF u >= 32768 THEN u - 65536 ELSE u

VectorRead ==
    [op |-> "read", reg |-> "OUTX_L_REG", autoinc |-> TRUE, count |-> 8,
     cap |-> 6]

Times(blk, n) == IF n = 0 THEN <<>> ELSE <<Blk(blk, n)>>

SetMax(S) == CHOOSE x \in S : \A y \in S : y <= x
SetMin(S) == CHOOSE x \in S : \A y \in S : x <= y

\* C1: a calibration pass in which some axis has scale basis 0 ends in a
\* DegenerateCalibration failure: no soft-iron scale is computed by dividing
\* by that zero, and the pass is not reported as done.
C1_DegenerateCalibration ==
    (Done("offset_bias") /\ \E k \in Axes : mag_scale[k] = 0)
        => /\ \A k \in Axes : Finite(dest2[k])
           /\ \A i \in 1..Len(sink) : sink[i] # "Mag Calibration done!"

\* C2: the self-test delta reported for each axis is
\* (excitedMean - baselineMean) * 0.0015 * 1000 of that same axis.
C2_DeltaPerAxis ==
    Done("self_test")
        => \A k \in Axes : reported[k] = 3 * (magTest[k] - magNom[k])

\* C3: after at least one sample is folded into the running extrema, on every
\* axis max >= min, max is the largest and min the smallest sample seen, and
\* after exactly one sample both equal that sample.
C3_RunningExtrema ==
    (pc = "fold" /\ ii >= 1)
        => \A k \in Axes :
             LET seen == {feed[j][k] : j \in 1..ii} IN
             /\ mag_max[k] >= mag_min[k]
             /\ mag_max[k] = SetMax(seen)
             /\ mag_min[k] = SetMin(seen)
             /\ (ii = 1 => mag_max[k] = feed[1][k] /\ mag_min[k] = feed[1][k])

\* C4: readVector issues exactly one auto-increment read of 8 bytes at the
\* X-low register and returns, per axis k, the little-endian signed 16-bit
\* value of bytes 2k, 2k+1 of the response.
C4_ReadVector ==
    Done("data_get")
        => /\ trace = <<Blk(<<VectorRead>>, 1)>>
           /\ \A k \in Axes :
                destination[k] = SignedLE(resp[2 * k - 1], resp[2 * k])

\* C5: selfTest takes the 50 baseline reads before any register write, then
\* reads CFG_REG_C once, writes it back with bit 0x02 set and waits 100 ms,
\* takes the 50 excited reads while that value is in the register, then
\* writes the value it read and waits 100 ms; on return the register holds
\* its value at the start of the call.
C5_SelfTestBracket ==
    LET c0 == regs0["CFG_REG_C"]
        iter == <<VectorRead, OpDelay(50)>>
        enable == << Blk(<<OpReadByte("CFG_REG_C")>>, 1),
                     Blk(<<OpWriteByte("CFG_REG_C", WithBit(c0, 2))>>, 1),
                     Blk(<<OpDelay(100)>>, 1) >>
        restore == << Blk(<<OpWriteByte("CFG_REG_C", c0)>>, 1),
                      Blk(<<OpDelay(100)>>, 1),
                      Blk(<<OpDelay(2000)>>, 1) >>
    IN /\ pc = "st_base"
            => /\ ii <= 50
               /\ trace = Times(iter, ii)
               /\ regs = regs0
       /\ pc = "st_excited"
            => /\ ii <= 50
               /\ trace = Times(iter, 50) \o enable \o Times(iter, ii)
               /\ regs = [regs0 EXCEPT !["CFG_REG_C"] = WithBit(c0, 2)]
       /\ Done("self_test")
            => /\ trace = Times(iter, 50) \o enable \o Times(iter, 50)
                            \o restore
               /\ regs = regs0

C5_Witness ==
    /\ Done("self_test")
    /\ regs0["CFG_REG_C"] = 17
    /\ regs = regs0
    /\ Len(trace) = 8

\* C6: reset reads CFG_REG_A (value v), writes v with bit 0x20 set, waits
\* 1 ms, writes v with bit 0x40 set, waits 100 ms, and does nothing else.
C6_ResetSequence ==
    Done("reset")
        => LET v == regs0["CFG_REG_A"] IN
           trace = << Blk(<<OpReadByte("CFG_REG_A")>>, 1),
                      Blk(<<OpWriteByte("CFG_REG_A", WithBit(v, 32))>>, 1),
                      Blk(<<OpDelay(1)>>, 1),
                      Blk(<<OpWriteByte("CFG_REG_A", WithBit(v, 64))>>, 1),
                      Blk(<<OpDelay(100)>>, 1) >>

C6_Witness ==
    /\ Done("reset")
    /\ regs0["CFG_REG_A"] = 0
    /\ regs["CFG_REG_A"] = 64
    /\ Len(trace) = 5

\* C7: the hard-iron bias of an axis is (max + min) / 2 of the exact sum,
\* truncated toward zero, and the returned offset is the bias times 0.0015.
C7_HardIronBias ==
    pc = "done"
        => \A k \in Axes :
             LET s == mag_max[k] + mag_min[k]
                 q == mag_bias[k]
             IN /\ \/ 2 * q = s
                   \/ s > 0 /\ 2 * q = s - 1
                   \/ s < 0 /\ 2 * q = s + 1
                /\ (mag_max[k] = 300 /\ mag_min[k] = -50) => q = 125
                /\ (mag_max[k] = 0 /\ mag_min[k] = -1) => q = 0
                /\ dest1[k] = q * 15

C7_Witness ==
    /\ pc = "done"
    /\ Len(feed) = 2
    /\ mag_max[1] = 0 /\ mag_min[1] = -1 /\ mag_bias[1] = 0
    /\ mag_max[2] = 32767 /\ mag_min[2] = 32767 /\ mag_bias[2] = 32767

\* C8: when a bus read of a sampling iteration fails, no further sampling
\* iteration runs and the call ends in a reported failure.
C8_AbortOnBusFault ==
    /\ ~sampledAfterFault
    /\ (pc = "done" /\ faultSeen)
           => \E i \in 1..Len(sink) : sink[i] = "BusFault"

\* C9: calibrate waits 4000 ms, then runs exactly 4000 iterations of one
\* vector read followed by a 12 ms delay, writes no register, leaves the
\* device registers unchanged and always comes to its end.
C9_CalibrateTrace ==
    LET iter == <<VectorRead, OpDelay(12)>> IN
    /\ regs = regs0
    /\ pc = "cal_loop"
         => /\ ii <= 4000
            /\ trace = <<Blk(<<OpDelay(4000)>>, 1)>> \o Times(iter, ii)
            /\ ENABLED CalNext
    /\ Done("offset_bias")
         => /\ ii = 4000
            /\ trace = <<Blk(<<OpDelay(4000)>>, 1), Blk(iter, 4000)>>

C9_Witness ==
    /\ Done("offset_bias")
    /\ ii = 4000
    /\ Len(trace) = 2
    /\ \A k \in Axes : Finite(dest2[k])

\* C10: every multi-byte read asks for no more bytes than the buffer it is
\* given can hold.
C10_ReadFitsBuffer ==
    \A i \in 1..Len(trace) :
        \A j \in 1..Len(trace[i].ops) :
            LET o == trace[i].ops[j] IN
            o.op = "read" => o.count <= o.cap

=============================================================================
